---- MODULE Spec2Model ----
(***************************************************************************)
(* Model of the telemarketing dashboard (src/app_7.py): the categorical    *)
(* filter multiselect_filter, the filter pipeline and the distribution     *)
(* summary of main(), the exporter to_excel, and the render loop of the    *)
(* page with its sidebar form.                                             *)
(*                                                                         *)
(* A dataframe is a record [columns, index, rows]: the schema, the row     *)
(* labels (pandas' index) and the rows, each row a function from column    *)
(* name to value.  A call that can raise returns [err, val], err = "none"  *)
(* when it returns.                                                        *)
(***************************************************************************)
EXTENDS Integers, Sequences, FiniteSets, TLC

VARIABLES
    d,          \* SpecFn: the dataframe the functions are called on
    call,       \* SpecFn: the last call, its arguments and its result
    data_file,  \* the file in the uploader, or NoFile
    load_cache, \* st.cache_data of load_data: file -> dataframe
    widgets,    \* the form's widget values the script reads (committed)
    pending,    \* the form's widget values in the browser (not yet submitted)
    page,       \* what the last run of main() produced
    nevents     \* the user's events so far: uploads, edits, submissions

vars == <<d, call, data_file, load_cache, widgets, pending, page, nevents>>

----------------------------------------------------------------------------
(* Bounds of the model *)

\* longest dataframe drawn from RowPool
MaxRows == 2
\* changes of the uploaded file in one session
MaxUploads == 2
\* widget edits in one session
MaxEdits == 2
\* form submissions in one session
MaxSubmits == 2

----------------------------------------------------------------------------
(* Data *)

Range(s) == {s[i] : i \in 1..Len(s)}

\* the eight filtered columns, in the order main() pipes them
CatCols == <<"job", "marital", "default", "housing", "loan", "contact", "month", "day_of_week">>

Columns == {"age", "y"} \cup Range(CatCols)

\* a missing cell, as pd.read_csv reads it
NaN == "NaN"

\* the sentinel of a selection
All == "all"

MkRow(age, job, marital, housing, y) ==
    [age |-> age, job |-> job, marital |-> marital, default |-> "no",
     housing |-> housing, loan |-> "no", contact |-> "cellular",
     month |-> "may", day_of_week |-> "mon", y |-> y]

RowPool ==
    { MkRow(30, "admin.", "married", "yes", "yes"),
      MkRow(31, "technician", "single", "yes", "no"),
      MkRow(32, "admin.", "single", "no", NaN) }

\* range(n) as a sequence: 0, 1, ..., n-1
RangeIndex(n) == [i \in 1..n |-> i - 1]

\* pd.read_csv of a file holding these rows: a RangeIndex, every column
load_data(rows) == [columns |-> Columns, index |-> RangeIndex(Len(rows)), rows |-> rows]

SeqsUpTo(S, n) == UNION {[1..k -> S] : k \in 0..n}

\* ages 20, 25, ..., 65; y cycles yes, no, no, yes, no
ScenarioRows ==
    [i \in 1..10 |->
        MkRow(15 + 5 * i,
              IF i % 2 = 0 THEN "admin." ELSE "technician",
              IF i % 3 = 0 THEN "married" ELSE "single",
              "yes",
              IF i % 5 \in {1, 4} THEN "yes" ELSE "no")]

\* y = yes, no, no, yes, no
FiveRows == SubSeq(ScenarioRows, 1, 5)

DropColumn(df, c) ==
    [columns |-> df.columns \ {c},
     index |-> df.index,
     rows |-> [i \in 1..Len(df.rows) |-> [k \in df.columns \ {c} |-> df.rows[i][k]]]]

FnFrames ==
    LET full == {load_data(r) : r \in SeqsUpTo(RowPool, MaxRows) \cup {ScenarioRows, FiveRows}}
    IN  full \cup {DropColumn(x, "day_of_week") : x \in full}

----------------------------------------------------------------------------
(* Results of calls that may raise *)

Ok(v) == [err |-> "none", val |-> v]
Raise(e) == [err |-> e, val |-> <<>>]

----------------------------------------------------------------------------
(* Dataframe operations *)

\* the positions of the rows: 1, ..., n
Positions(df) == [i \in 1..Len(df.rows) |-> i]

\* df[mask]: the rows at the kept positions, with their index labels
Take(df, pos) ==
    [columns |-> df.columns,
     index |-> [k \in 1..Len(pos) |-> df.index[pos[k]]],
     rows |-> [k \in 1..Len(pos) |-> df.rows[pos[k]]]]

reset_index(df) == [df EXCEPT !.index = RangeIndex(Len(df.rows))]

isin_rows_misaligned(df, col, selected) ==
    LET keep(i) == i < Len(df.rows) /\ df.rows[i + 1][col] \in selected
    IN  Take(df, SelectSeq(Positions(df), keep))

\* df[df[col].isin(selected)]
isin_rows(df, col, selected) ==
    LET keep(i) == df.rows[i][col] \in selected
    IN  Take(df, SelectSeq(Positions(df), keep))

multiselect_filter_drop_first(df, col, selected) ==
    IF All \in selected THEN Ok(df)
    ELSE IF col \notin df.columns THEN Raise("KeyError")
    ELSE LET f == isin_rows(df, col, selected)
             n == Len(f.rows)
         IN  Ok(reset_index([f EXCEPT !.index = SubSeq(f.index, 2, n),
                                      !.rows = SubSeq(f.rows, 2, n)]))

multiselect_filter_no_sentinel(df, col, selected) ==
    IF col \notin df.columns THEN Raise("KeyError")
    ELSE Ok(reset_index(isin_rows(df, col, selected)))

multiselect_filter_checks_column(df, col, selected) ==
    IF col \notin df.columns THEN Raise("KeyError")
    ELSE IF All \in selected THEN Ok(df)
    ELSE Ok(reset_index(isin_rows(df, col, selected)))

\* multiselect_filter: df itself when the sentinel is selected, before col is
\* looked at; otherwise df[col] (a KeyError when col is no column) and the
\* matching rows, reindexed.  st.cache_data keys a call by the contents of its
\* arguments and returns a copy of the stored result, so the memoized
\* function is this function of its arguments.
multiselect_filter(df, col, selected) ==
    IF All \in selected THEN Ok(df)
    ELSE IF col \notin df.columns THEN Raise("KeyError")
    ELSE Ok(reset_index(isin_rows(df, col, selected)))

query_age_exclusive(df, lo, hi) ==
    LET keep(i) == df.rows[i].age > lo /\ df.rows[i].age < hi
    IN  Ok(Take(df, SelectSeq(Positions(df), keep)))

query_age_checked(df, lo, hi) ==
    IF lo > hi THEN Raise("InvalidRange")
    ELSE LET keep(i) == df.rows[i].age >= lo /\ df.rows[i].age <= hi
         IN  Ok(Take(df, SelectSeq(Positions(df), keep)))

\* bank.query("age >= @age_range[0] and age <= @age_range[1]")
query_age(df, lo, hi) ==
    LET keep(i) == df.rows[i].age >= lo /\ df.rows[i].age <= hi
    IN  Ok(Take(df, SelectSeq(Positions(df), keep)))

RECURSIVE PipeFilters(_, _, _)
\* .pipe(multiselect_filter, CatCols[k], sels[CatCols[k]]) for k = n, n+1, ...,
\* in order; a filter that raises ends the chain
PipeFilters(r, sels, n) ==
    IF n > Len(CatCols) \/ r.err # "none" THEN r
    ELSE LET next == multiselect_filter(r.val, CatCols[n], sels[CatCols[n]])
         IN  PipeFilters(next, sels, n + 1)

\* the filter pipeline of main(): the age query, then the eight filters
pipeline(df, lo, hi, sels) == PipeFilters(query_age(df, lo, hi), sels, 1)

----------------------------------------------------------------------------
(* The distribution of y *)

RECURSIVE gcd(_, _)
gcd(a, b) == IF b = 0 THEN a ELSE gcd(b, a % b)

\* the exact quotient n / m (m > 0), in lowest terms; the floats of the code
\* are these quotients rounded
Frac(n, m) == LET g == gcd(n, m) IN [num |-> n \div g, den |-> m \div g]

MulFrac(q, k) == Frac(q.num * k, q.den)

AddFrac(p, q) == Frac(p.num * q.den + q.num * p.den, p.den * q.den)

\* the labels of y in the order sort_index() gives them
SortedLabels == <<"no", "yes">>

Count(df, col, v) == Cardinality({i \in 1..Len(df.rows) : df.rows[i][col] = v})

\* the rows value_counts() counts: dropna=True leaves the missing cells out
Present(df, col) == {i \in 1..Len(df.rows) : df.rows[i][col] # NaN}

value_counts_keeps_missing(df, col) ==
    LET n == Len(df.rows)
        labels == SelectSeq(SortedLabels, LAMBDA v : Count(df, col, v) > 0)
    IN  [index |-> labels,
         y |-> [k \in 1..Len(labels) |-> MulFrac(Frac(Count(df, col, labels[k]), n), 100)]]

\* df[col].value_counts(normalize=True).mul(100).to_frame("y").sort_index():
\* one row per value present, its count over the number of cells that are
\* not missing, times 100, the labels sorted
value_counts_pct(df, col) ==
    LET n == Cardinality(Present(df, col))
        labels == SelectSeq(SortedLabels, LAMBDA v : Count(df, col, v) > 0)
    IN  [index |-> labels,
         y |-> [k \in 1..Len(labels) |-> MulFrac(Frac(Count(df, col, labels[k]), n), 100)]]

RECURSIVE SumFracs(_)
SumFracs(s) == IF s = <<>> THEN Frac(0, 1) ELSE AddFrac(Head(s), SumFracs(Tail(s)))

----------------------------------------------------------------------------
(* The exporter *)

\* df.to_excel(writer, index=False, sheet_name='Sheet1'): the header and the
\* cells, without the index
to_excel(df) == [sheet |-> "Sheet1", header |-> df.columns, cells |-> df.rows]

\* to_excel of a distribution frame: its one column y, the labels (its index)
\* are not written
to_excel_perc(perc) == [sheet |-> "Sheet1", header |-> {"y"}, cells |-> perc.y]

----------------------------------------------------------------------------
(* Inputs of the calls *)

\* the values a column takes in the dataframes of the model
ColValues(col) ==
    CASE col = "job" -> {"admin.", "technician"}
      [] col = "marital" -> {"married", "single"}
      [] col = "housing" -> {"yes", "no"}
      [] col = "default" -> {"no"}
      [] col = "loan" -> {"no"}
      [] col = "contact" -> {"cellular"}
      [] col = "month" -> {"may"}
      [] col = "day_of_week" -> {"mon"}
      [] col = "y" -> {"yes", "no"}

\* a value no row holds
Foreign == "unknown"

\* the selections a caller may pass for a column
Selections(col) == SUBSET (ColValues(col) \cup {All, Foreign})

\* the selections of the pipeline's calls: of the column's own values
Options(col) == SUBSET (ColValues(col) \cup {All})

\* the bounds a caller may pass for the age range
AgeBounds == {30, 31, 32, 50}

\* every column unrestricted: the form's default=["all"]
DefaultSels == [c \in Range(CatCols) |-> {All}]

NoCall == [op |-> "none"]

NoFile == "NoFile"

\* the page before any file is uploaded: main() returns at line 81
NoPage == [status |-> "no_file"]

\* fewest: the fewest rows a filtered table showed since the file was uploaded
NoEvents == [uploads |-> 0, edits |-> 0, submits |-> 0, fewest |-> -1]

----------------------------------------------------------------------------
(* SpecFn: the functions called on every dataframe and argument of the model *)

InitFn ==
    /\ d \in FnFrames
    /\ call = NoCall
    /\ data_file = NoFile
    /\ load_cache = <<>>
    /\ widgets = <<>>
    /\ pending = <<>>
    /\ page = NoPage
    /\ nevents = NoEvents

CallFilter ==
    /\ call = NoCall
    /\ \E col \in Range(CatCols) \cup {"y"} : \E selected \in Selections(col) :
        call' = [op |-> "multiselect_filter", col |-> col, selected |-> selected,
                 res |-> multiselect_filter(d, col, selected)]
    /\ UNCHANGED <<d, data_file, load_cache, widgets, pending, page, nevents>>

CallPipeline ==
    /\ call = NoCall
    /\ \E lo \in AgeBounds, hi \in AgeBounds, jobs \in Options("job"), c \in Range(CatCols) :
         \E s \in Options(c) :
           LET sels == [[DefaultSels EXCEPT !["job"] = jobs] EXCEPT ![c] = s]
           IN  call' = [op |-> "pipeline", lo |-> lo, hi |-> hi, sels |-> sels,
                        res |-> pipeline(d, lo, hi, sels)]
    /\ UNCHANGED <<d, data_file, load_cache, widgets, pending, page, nevents>>

CallValueCounts ==
    /\ call = NoCall
    /\ call' = [op |-> "value_counts", res |-> value_counts_pct(d, "y")]
    /\ UNCHANGED <<d, data_file, load_cache, widgets, pending, page, nevents>>

NextFn == CallFilter \/ CallPipeline \/ CallValueCounts

SpecFn == InitFn /\ [][NextFn]_vars

----------------------------------------------------------------------------
(* Claims about the functions, checked under SpecFn *)

IsFilterCall == call.op = "multiselect_filter"
IsPipelineCall == call.op = "pipeline"
IsValueCountsCall == call.op = "value_counts"

\* the rows of df that satisfy test, in df's order
RowsWhere(df, test(_)) == SelectSeq(df.rows, test)

\* C1: a selection that contains the sentinel "all", alone or with other
\* entries, makes multiselect_filter return the dataframe it was given,
\* unchanged: same columns, same rows in the same order, same index.
C1_SentinelReturnsInput ==
    (IsFilterCall /\ All \in call.selected) => call.res = Ok(d)

\* a call with {"admin.", "all"} on job, on a dataframe with a technician row,
\* that returned the dataframe
C1_Witness ==
    /\ IsFilterCall
    /\ call.col = "job"
    /\ call.selected = {"admin.", All}
    /\ \E i \in 1..Len(d.rows) : d.rows[i].job = "technician"
    /\ call.res = Ok(d)

\* C2: for a column of the dataframe and a selection without "all" (the empty
\* selection too), multiselect_filter returns exactly the rows whose value in
\* the column is in the selection, in their original order: every returned
\* row matches and no matching row is dropped.
C2_FilterKeepsExactlyMatches ==
    (IsFilterCall /\ All \notin call.selected /\ call.col \in d.columns) =>
        /\ call.res.err = "none"
        /\ call.res.val.columns = d.columns
        /\ call.res.val.rows = RowsWhere(d, LAMBDA r : r[call.col] \in call.selected)
        /\ \A i \in 1..Len(call.res.val.rows) : call.res.val.rows[i][call.col] \in call.selected

\* a call that kept at least two rows and dropped at least one
C2_Witness ==
    /\ IsFilterCall
    /\ All \notin call.selected
    /\ call.col \in d.columns
    /\ call.res.err = "none"
    /\ Len(call.res.val.rows) >= 2
    /\ Len(call.res.val.rows) < Len(d.rows)

\* whether a row passes the range and every column's selection
Passes(r, lo, hi, sels) ==
    /\ lo <= r.age
    /\ r.age <= hi
    /\ \A c \in Range(CatCols) : All \in sels[c] \/ r[c] \in sels[c]

Ages(df) == [i \in 1..Len(df.rows) |-> df.rows[i].age]

AllSels(sels) == \A c \in Range(CatCols) : sels[c] = {All}

\* C3: for a range with min <= max, the pipeline returns exactly the rows with
\* min <= age <= max (both ends included) that pass every column's filter; on
\* the ten rows of ages 20, 25, ..., 65 with range [30, 50] and every selection
\* "all" it returns the five rows of ages 30, 35, 40, 45, 50.
C3_PipelineKeepsExactlyPassing ==
    (IsPipelineCall /\ call.lo <= call.hi /\ Columns \subseteq d.columns) =>
        /\ call.res.err = "none"
        /\ call.res.val.rows = RowsWhere(d, LAMBDA r : Passes(r, call.lo, call.hi, call.sels))
        /\ (d.rows = ScenarioRows /\ call.lo = 30 /\ call.hi = 50 /\ AllSels(call.sels))
              => Ages(call.res.val) = <<30, 35, 40, 45, 50>>

\* the scenario's call, and it returned five rows
C3_Witness ==
    /\ IsPipelineCall
    /\ d = load_data(ScenarioRows)
    /\ call.lo = 30
    /\ call.hi = 50
    /\ AllSels(call.sels)
    /\ call.res.err = "none"
    /\ Len(call.res.val.rows) = 5

\* C4: the pipeline applied to its own output, with the same range and
\* selections, returns that output again.
C4_PipelineIdempotent ==
    (IsPipelineCall /\ call.res.err = "none") =>
        pipeline(call.res.val, call.lo, call.hi, call.sels) = call.res

\* a call whose range and selections both removed rows and kept some
C4_Witness ==
    /\ IsPipelineCall
    /\ call.res.err = "none"
    /\ ~AllSels(call.sels)
    /\ Len(call.res.val.rows) >= 1
    /\ Len(call.res.val.rows) < Len(RowsWhere(d, LAMBDA r : call.lo <= r.age /\ r.age <= call.hi))
    /\ Len(RowsWhere(d, LAMBDA r : call.lo <= r.age /\ r.age <= call.hi)) < Len(d.rows)

Hundred == Frac(100, 1)

\* the values of y in the dataframe, sorted
LabelsPresent(df) == SelectSeq(SortedLabels, LAMBDA v : \E i \in 1..Len(df.rows) : df.rows[i].y = v)

\* C5 as stated: for a non-empty dataframe the distribution has one entry per
\* value of y present, each 100 * count(v) / (number of rows), and the entries
\* sum to 100; for an empty dataframe it is empty.
C5_Original ==
    IsValueCountsCall =>
        /\ call.res.index = LabelsPresent(d)
        /\ \A k \in 1..Len(call.res.index) :
              call.res.y[k] = Frac(100 * Count(d, "y", call.res.index[k]), Len(d.rows))
        /\ Len(d.rows) > 0 => SumFracs(call.res.y) = Hundred
        /\ Len(d.rows) = 0 => call.res.index = <<>>

\* C5, amended: the distribution has one entry per value of y present, each
\* 100 * count(v) / (number of rows whose y is not missing); the entries sum
\* to 100 when some row has a y, and the distribution is empty when none has
\* (the empty dataframe included).
C5_ShareOfPresentRows ==
    IsValueCountsCall =>
        /\ call.res.index = LabelsPresent(d)
        /\ Len(call.res.y) = Len(call.res.index)
        /\ \A k \in 1..Len(call.res.index) :
              call.res.y[k] = Frac(100 * Count(d, "y", call.res.index[k]),
                                   Cardinality(Present(d, "y")))
        /\ Present(d, "y") # {} => SumFracs(call.res.y) = Hundred
        /\ Present(d, "y") = {} => call.res.index = <<>>

\* y = yes, no, no, yes, no gives no: 60, yes: 40
C5_Witness ==
    /\ IsValueCountsCall
    /\ d = load_data(FiveRows)
    /\ call.res = [index |-> <<"no", "yes">>, y |-> <<Frac(60, 1), Frac(40, 1)>>]

\* C7 as stated: multiselect_filter raises for a column the dataframe does not
\* have, whatever the selection.
C7_Original ==
    (IsFilterCall /\ call.col \notin d.columns) => call.res.err = "KeyError"

\* C7, amended: for a column the dataframe does not have, multiselect_filter
\* raises (a KeyError) exactly when the selection does not contain "all"; with
\* "all" in the selection it returns the dataframe unchanged.
C7_AbsentColumnRaisesUnlessAll ==
    (IsFilterCall /\ call.col \notin d.columns) =>
        /\ All \notin call.selected => call.res = Raise("KeyError")
        /\ All \in call.selected => call.res = Ok(d)

\* a call on the absent column without "all", which raised
C7_Witness ==
    /\ IsFilterCall
    /\ call.col \notin d.columns
    /\ call.selected = {"mon"}
    /\ Len(d.rows) > 0
    /\ call.res.err = "KeyError"

----------------------------------------------------------------------------
(* The page: one run of main() *)

\* the files the user may upload, by name
AppFiles == {"A", "B"}

\* the rows of each file
FileRows(f) ==
    IF f = "A"
    THEN << MkRow(30, "admin.", "married", "yes", "yes"),
            MkRow(31, "technician", "single", "yes", "no"),
            MkRow(32, "admin.", "single", "no", NaN) >>
    ELSE << MkRow(30, "admin.", "married", "yes", "no"),
            MkRow(32, "admin.", "single", "yes", "yes") >>

\* load_data under st.cache_data: the stored dataframe of a file seen before
cached_load(cache, f) == IF f \in DOMAIN cache THEN cache[f] ELSE load_data(FileRows(f))

cache_shares_bank(cache, f, bank_raw, bank) ==
    (f :> bank) @@ cache

\* the cache after a run: st.cache_data stores what load_data returned and
\* hands out copies, and bank is itself a copy (line 87), so nothing the run
\* does to bank reaches the stored dataframe
cache_after_run(cache, f, bank_raw, bank) ==
    IF f \in DOMAIN cache THEN cache ELSE (f :> bank_raw) @@ cache

\* df.head()
head(df) ==
    LET n == IF Len(df.rows) < 5 THEN Len(df.rows) ELSE 5
    IN  [columns |-> df.columns, index |-> SubSeq(df.index, 1, n), rows |-> SubSeq(df.rows, 1, n)]

SetMin(S) == CHOOSE x \in S : \A z \in S : x <= z
SetMax(S) == CHOOSE x \in S : \A z \in S : x >= z

\* int(bank.age.min()), int(bank.age.max())
min_age(df) == SetMin(Range(Ages(df)))
max_age(df) == SetMax(Range(Ages(df)))

\* multiselect_block's options: the column's values and "all" (a set here:
\* their order, sorted with "all" last, is a function of the set)
options(df, col) == {df.rows[i][col] : i \in 1..Len(df.rows)} \cup {All}

WidgetNames == {"graph_type", "age_range"} \cup Range(CatCols)

\* the widgets the user changes in the sessions of the model; the others stay
\* at their defaults
Touched == {"graph_type", "age_range", "job", "day_of_week"}

\* what a widget is built from; Streamlit identifies a widget by it
WidgetParams(df, w) ==
    CASE w = "graph_type" -> <<"Barras", "Pizza">>
      [] w = "age_range" -> <<min_age(df), max_age(df)>>
      [] OTHER -> options(df, w)

\* index 0 of the radio, value=(min_age, max_age), default=["all"]
WidgetDefault(df, w) ==
    CASE w = "graph_type" -> "Barras"
      [] w = "age_range" -> <<min_age(df), max_age(df)>>
      [] OTHER -> {All}

\* the values the user can give a widget
WidgetValues(df, w) ==
    CASE w = "graph_type" -> {"Barras", "Pizza"}
      [] w = "age_range" ->
            {<<lo, hi>> : lo \in min_age(df)..max_age(df), hi \in min_age(df)..max_age(df)}
                \cap {r \in (Int \X Int) : r[1] <= r[2]}
      [] OTHER -> SUBSET options(df, w)

\* the widget values of a run: a widget built as in the previous run keeps its
\* value, any other starts from its default
Carry(had_form, prev, df, old) ==
    [w \in WidgetNames |->
        IF had_form /\ WidgetParams(prev, w) = WidgetParams(df, w)
        THEN old[w] ELSE WidgetDefault(df, w)]

\* sns.barplot(...): one container of bars; with no data seaborn returns the
\* axes untouched, so ax.containers stays empty
barplot_containers(perc) == IF Len(perc.index) = 0 THEN <<>> ELSE <<perc.y>>

\* sns.barplot(...); ax.bar_label(ax.containers[0])
bar_panel(perc) ==
    LET containers == barplot_containers(perc)
    IN  IF Len(containers) = 0 THEN Raise("IndexError")
        ELSE Ok([kind |-> "bar", x |-> perc.index, labels |-> containers[1]])

\* perc.plot(kind="pie", y="y", autopct="%.2f%%"): a pie of no wedge when
\* there is nothing to plot
pie_panel(perc) == Ok([kind |-> "pie", labels |-> perc.index, wedges |-> perc.y])

\* the two panels, the raw distribution first
chart(graph_type, raw_perc, filt_perc) ==
    LET left == IF graph_type = "Barras" THEN bar_panel(raw_perc) ELSE pie_panel(raw_perc)
        right == IF graph_type = "Barras" THEN bar_panel(filt_perc) ELSE pie_panel(filt_perc)
    IN  IF left.err # "none" THEN left
        ELSE IF right.err # "none" THEN right
        ELSE Ok(<<left.val, right.val>>)

\* the part of main() under "if apply_filters:"
Filtered(bank_raw, ws) ==
    LET bank == pipeline(bank_raw, ws["age_range"][1], ws["age_range"][2],
                         [c \in Range(CatCols) |-> ws[c]])
        raw_perc == value_counts_pct(bank_raw, "y")
        filt_perc == value_counts_pct(bank.val, "y")
        fig == chart(ws["graph_type"], raw_perc, filt_perc)
    IN  IF bank.err # "none"
        THEN [status |-> "applied", apply_filters |-> TRUE, bank_raw |-> bank_raw,
              raw_head |-> head(bank_raw), error |-> bank.err]
        ELSE [status |-> "applied", apply_filters |-> TRUE, bank_raw |-> bank_raw,
              raw_head |-> head(bank_raw),
              age_range |-> ws["age_range"], sels |-> [c \in Range(CatCols) |-> ws[c]],
              graph_type |-> ws["graph_type"],
              bank |-> bank.val, filtered_head |-> head(bank.val),
              filtered_xlsx |-> to_excel(bank.val),
              raw_perc |-> raw_perc, filt_perc |-> filt_perc,
              raw_perc_xlsx |-> to_excel_perc(raw_perc),
              filt_perc_xlsx |-> to_excel_perc(filt_perc),
              chart |-> fig.val, error |-> fig.err]

Render_filters_always(bank_raw, ws, apply_filters) == Filtered(bank_raw, ws)

\* main() from line 86 on: the raw table and the form, and the filtered
\* table, the distributions, the downloads and the chart when the run was
\* started by the form's submit button
Render(bank_raw, ws, apply_filters) ==
    IF apply_filters THEN Filtered(bank_raw, ws)
    ELSE [status |-> "form", apply_filters |-> FALSE, bank_raw |-> bank_raw,
          raw_head |-> head(bank_raw)]

\* bank at the end of a run
BankOf(pg) == IF "bank" \in DOMAIN pg THEN pg.bank ELSE pg.bank_raw

----------------------------------------------------------------------------
(* Spec: the session of one user *)

Init ==
    /\ d = load_data(<<>>)
    /\ call = NoCall
    /\ data_file = NoFile
    /\ load_cache = <<>>
    /\ widgets = <<>>
    /\ pending = <<>>
    /\ page = NoPage
    /\ nevents = NoEvents

\* the user puts a file in the uploader: the script runs, apply_filters False
Upload(f) ==
    /\ nevents.uploads < MaxUploads
    /\ f # data_file
    /\ LET bank_raw == cached_load(load_cache, f)
           had_form == data_file # NoFile
           prev == IF had_form THEN page.bank_raw ELSE bank_raw
           pg == Render(bank_raw, Carry(had_form, prev, bank_raw, widgets), FALSE)
       IN  /\ data_file' = f
           /\ widgets' = Carry(had_form, prev, bank_raw, widgets)
           /\ pending' = Carry(had_form, prev, bank_raw, pending)
           /\ page' = pg
           /\ load_cache' = cache_after_run(load_cache, f, bank_raw, BankOf(pg))
    /\ nevents' = [nevents EXCEPT !.uploads = @ + 1, !.fewest = -1]
    /\ UNCHANGED <<d, call>>

\* the user clears the uploader: the script runs and returns at line 81; the
\* form is not built, so its widgets are forgotten
Remove ==
    /\ nevents.uploads < MaxUploads
    /\ data_file # NoFile
    /\ data_file' = NoFile
    /\ widgets' = <<>>
    /\ pending' = <<>>
    /\ page' = NoPage
    /\ nevents' = [nevents EXCEPT !.uploads = @ + 1, !.fewest = -1]
    /\ UNCHANGED <<d, call, load_cache>>

\* the user changes one widget of the form: inside st.form nothing is sent
\* to the script and it does not run
Edit ==
    /\ nevents.edits < MaxEdits
    /\ data_file # NoFile
    /\ \E w \in Touched : \E v \in WidgetValues(page.bank_raw, w) :
          /\ v # pending[w]
          /\ pending' = [pending EXCEPT ![w] = v]
    /\ nevents' = [nevents EXCEPT !.edits = @ + 1]
    /\ UNCHANGED <<d, call, data_file, load_cache, widgets, page>>

\* the user presses "Aplicar filtros": the form's values are sent together
\* and the script runs with apply_filters True
Submit ==
    /\ nevents.submits < MaxSubmits
    /\ data_file # NoFile
    /\ LET bank_raw == cached_load(load_cache, data_file)
           ws == Carry(TRUE, page.bank_raw, bank_raw, pending)
           pg == Render(bank_raw, ws, TRUE)
           n == Len(BankOf(pg).rows)
       IN  /\ widgets' = ws
           /\ pending' = ws
           /\ page' = pg
           /\ load_cache' = cache_after_run(load_cache, data_file, bank_raw, BankOf(pg))
           /\ nevents' = [nevents EXCEPT !.submits = @ + 1,
                             !.fewest = IF @ = -1 \/ n < @ THEN n ELSE @]
    /\ UNCHANGED <<d, call, data_file>>

Next == (\E f \in AppFiles : Upload(f)) \/ Remove \/ Edit \/ Submit

Spec == Init /\ [][Next]_vars

----------------------------------------------------------------------------
(* Claims about the session, checked under Spec *)

\* the dataframe the uploaded file holds
Loaded(f) == load_data(FileRows(f))

FormSels(ws) == [c \in Range(CatCols) |-> ws[c]]

\* C6 as stated: when the submitted filter matches no row, the run ends
\* without an error: the filtered table and its distribution are empty, and
\* the exports and the chart, of either kind, are produced.
C6_Original ==
    (page.status = "applied" /\ "bank" \in DOMAIN page /\ Len(page.bank.rows) = 0) =>
        /\ page.filt_perc.index = <<>>
        /\ page.filtered_xlsx.cells = <<>>
        /\ page.error = "none"

\* C9: a run that the submit button did not start filters nothing and shows
\* no filtered table, distribution, download or chart; an edit of a form
\* widget starts no run; a run started by the button filters with the range,
\* selections and chart kind that were submitted, and what the page shows
\* always belongs to the submitted values, not to later edits.
C9_SubmissionGate ==
    [][ /\ (nevents'.submits = nevents.submits) =>
              (page' = page \/ page'.status # "applied")
        /\ (nevents'.edits # nevents.edits) =>
              (page' = page /\ widgets' = widgets)
        /\ (nevents'.submits # nevents.submits) =>
              /\ page'.status = "applied"
              /\ page'.apply_filters
              /\ widgets' = pending
        /\ (page'.status = "applied") =>
              /\ page'.age_range = widgets'["age_range"]
              /\ page'.sels = FormSels(widgets')
              /\ page'.graph_type = widgets'["graph_type"]
      ]_vars

\* a filtered page, and the form edited since: the page is that of the
\* submitted job selection, not of the one in the form
C9_Witness ==
    /\ page.status = "applied"
    /\ pending["job"] # widgets["job"]
    /\ page.sels["job"] = widgets["job"]
    /\ Len(page.bank.rows) < Len(page.bank_raw.rows)

\* C10: whatever was submitted before, the raw dataframe of a run is the
\* file's as loaded (and so is the cached one), and the filtered table is
\* the rows of that raw dataframe passing the range and selections of the
\* last submission alone.
C10_RawIntactNoAccumulation ==
    /\ \A f \in DOMAIN load_cache : load_cache[f] = Loaded(f)
    /\ data_file # NoFile => page.bank_raw = Loaded(data_file)
    /\ page.status = "applied" =>
          /\ page.age_range = widgets["age_range"]
          /\ page.sels = FormSels(widgets)
          /\ page.bank.columns = Columns
          /\ page.bank.rows =
                RowsWhere(Loaded(data_file),
                          LAMBDA r : Passes(r, widgets["age_range"][1],
                                            widgets["age_range"][2], FormSels(widgets)))

\* a second submission on the file that shows more rows than an earlier one
C10_Witness ==
    /\ page.status = "applied"
    /\ nevents.submits >= 2
    /\ nevents.fewest >= 0
    /\ nevents.fewest < Len(page.bank.rows)

====
